---- MODULE Spec2Model ----
(***************************************************************************)
(* Facility-location formulation layer of spopt.locate: the LSCP, LSCPB,   *)
(* MCLP (coverage.py) and PDispersion (p_dispersion.py) model classes.     *)
(* One model instance is followed from the caller's from_cost_matrix call  *)
(* through any number of solve() calls.  The MILP solver is an exact       *)
(* black box: it reports Infeasible / Unbounded when that is the case and  *)
(* otherwise returns some optimal solution with status Optimal.            *)
(***************************************************************************)
EXTENDS Integers, Sequences, FiniteSets

VARIABLES
    kind,                       \* class whose from_cost_matrix the caller invokes
    cost_matrix,                \* caller's argument: rows x facilities
    service_radius,             \* caller's argument (coverage models)
    weights,                    \* caller's argument (MCLP)
    p_facilities,               \* caller's argument (MCLP, PDispersion)
    predefined_facilities_arr,  \* caller's argument: forced-open facilities ({} = None)
    facility_capacity,          \* caller's argument (KNearestPMedian), <<>> = None
    k_array,                    \* caller's argument (KNearestPMedian)
    pc,                         \* "new" | "built" | "failed" (construction raised)
    attrs,                      \* attribute names set on the instance (hasattr)
    aij,                        \* coverage matrix attribute
    lscp_obj_value,             \* LSCPB: objective of the internal LSCP
    problem,                    \* the pulp.LpProblem: sense, objective, constraints
    status,                     \* problem.status, by its pulp.LpStatus name
    fac_vars,                   \* solved values of the facility variables
    cli_vars,                   \* solved values of the client variables
    disperse_var,               \* solved value of D
    cli_assgn_vars,             \* solved assignment of every client (KNearestPMedian)
    fac2cli,                    \* result attribute
    cli2fac,                    \* result attribute
    n_cli_uncov,                \* result attribute (MCLP)
    percentage,                 \* perc_cov (MCLP) / backup_perc (LSCPB)
    mean_dist,                  \* result attribute (KNearestPMedian)
    solves,                     \* number of solve() calls made on the instance
    raised,                     \* exception raised by the last call, "" if none
    invoked,                    \* extraction methods the last call invoked
    last_call,                  \* the last call made by the caller, with its arguments
    solver_calls,               \* number of times a pulp problem was handed to the solver
    other                       \* a second instance, held by another caller (<<>> = none)

vars == <<kind, cost_matrix, service_radius, weights, p_facilities,
          predefined_facilities_arr, facility_capacity, k_array, pc, attrs, aij, lscp_obj_value, problem,
          status, fac_vars, cli_vars, disperse_var, cli_assgn_vars, fac2cli, cli2fac,
          n_cli_uncov, percentage, mean_dist, solves, raised, invoked, last_call,
          solver_calls, other>>

inputs == <<kind, cost_matrix, service_radius, weights, p_facilities,
            predefined_facilities_arr, facility_capacity, k_array>>

results == <<fac2cli, cli2fac, n_cli_uncov, percentage, mean_dist>>

----------------------------------------------------------------------------
(* Bounds of the model *)

NumCli == 2
NumFac == 3
MaxWeight == 1
MaxSolves == 2

Clients == 0 .. (NumCli - 1)
Facilities == 0 .. (NumFac - 1)

----------------------------------------------------------------------------
(* Arithmetic helpers *)

RECURSIVE SumOver(_, _)
SumOver(S, f) ==
    IF S = {} THEN 0
    ELSE LET x == CHOOSE x \in S : TRUE IN f[x] + SumOver(S \ {x}, f)

Max(S) == CHOOSE x \in S : \A y \in S : y <= x

Elems(s) == {s[k] : k \in 1 .. Len(s)}

Range(n) == [k \in 1 .. n |-> k - 1]

ZeroFac == [j \in Facilities |-> 0]
ZeroCli == [i \in Clients |-> 0]
EmptyFac2Cli == [j \in Facilities |-> <<>>]
EmptyCli2Fac == [i \in Clients |-> <<>>]

----------------------------------------------------------------------------
(* Cost / coverage matrix preprocessor *)

\* Mutant: a cost equal to the radius does not count as covered
CoverageMatrix_Strict(cm, radius) ==
    [i \in DOMAIN cm |->
        [j \in DOMAIN cm[i] |-> IF cm[i][j] < radius THEN 1 ELSE 0]]

\* aij = zeros(cost_matrix.shape); aij[cost_matrix <= service_radius] = 1
CoverageMatrix(cm, radius) ==
    [i \in DOMAIN cm |->
        [j \in DOMAIN cm[i] |-> IF cm[i][j] <= radius THEN 1 ELSE 0]]

----------------------------------------------------------------------------
(* Constraint builder (FacilityModelBuilder): every family returns the rows *)
(* it appends to the problem; RowHolds gives each row its meaning.          *)

Row(family, i, j, rhs) == [family |-> family, i |-> i, j |-> j, rhs |-> rhs]

\* for every client i: sum_j aij[i][j] * y[j] >= 1
add_set_covering_constraint(r_cli) ==
    {Row("set_covering", i, 0, 1) : i \in r_cli}

\* for every client i: sum_j aij[i][j] * y[j] >= 1 + x[i]
add_backup_covering_constraint(r_cli) ==
    {Row("backup_covering", i, 0, 1) : i \in r_cli}

\* for every client i: x[i] <= sum_j aij[i][j] * y[j]
add_maximal_coverage_constraint(r_cli) ==
    {Row("maximal_coverage", i, 0, 0) : i \in r_cli}

\* sum_j y[j] = p_facilities
add_facility_constraint(p) ==
    {Row("facility", 0, 0, p)}

\* y[j] = 1 for every predefined facility j
add_predefined_facility_constraint(predefined) ==
    {Row("predefined", 0, j, 1) : j \in predefined}

\* M is the maximum of the cost matrix
BigM(cm) == Max({cm[i][j] : i \in DOMAIN cm, j \in Facilities})

\* for every pair i < j: cost[i][j] + M * (2 - y[i] - y[j]) >= D
add_p_dispersion_interfacility_constraint(cm, r_fac) ==
    {Row("dispersion", pr[1], pr[2], BigM(cm)) :
        pr \in {q \in r_fac \X r_fac : q[2] > q[1]}}

\* number of open facilities covering client i
Covering(a, y, i) == SumOver(Facilities, [j \in Facilities |-> a[i][j] * y[j]])

RowHolds(c, sol, a, cm) ==
    CASE c.family = "set_covering" -> Covering(a, sol.fac, c.i) >= c.rhs
      [] c.family = "backup_covering" -> Covering(a, sol.fac, c.i) >= c.rhs + sol.cli[c.i]
      [] c.family = "maximal_coverage" -> sol.cli[c.i] <= Covering(a, sol.fac, c.i)
      [] c.family = "facility" -> SumOver(Facilities, sol.fac) = c.rhs
      [] c.family = "predefined" -> sol.fac[c.j] = c.rhs
      [] c.family = "dispersion" ->
            cm[c.i][c.j] + c.rhs * (2 - sol.fac[c.i] - sol.fac[c.j]) >= sol.D

----------------------------------------------------------------------------
(* Objectives *)

\* Mutant: the LSCP objective maximized instead of minimized
LSCP_add_obj_Maximize == [sense |-> "max", objective |-> "fac_vars"]

\* LSCP: minimize y1 + ... + yj
LSCP_add_obj == [sense |-> "min", objective |-> "fac_vars"]
\* Mutant: the number of backed-up clients minimized instead of maximized
LSCPB_add_obj_Minimize == [sense |-> "min", objective |-> "cli_vars"]

\* LSCPB: maximize x1 + ... + xi
LSCPB_add_obj == [sense |-> "max", objective |-> "cli_vars"]
\* Mutant: the MCLP objective without the weights
MCLP_add_obj_Unweighted == [sense |-> "max", objective |-> "cli_vars"]

\* Mutant: the covered weight minimized instead of maximized
MCLP_add_obj_Minimize == [sense |-> "min", objective |-> "weighted_cli_vars"]

\* MCLP: maximize w1*x1 + ... + wi*xi
MCLP_add_obj == [sense |-> "max", objective |-> "weighted_cli_vars"]
\* Mutant: D minimized instead of maximized
PDispersion_add_obj_Minimize == [sense |-> "min", objective |-> "disperse_var"]

\* PDispersion: maximize D
PDispersion_add_obj == [sense |-> "max", objective |-> "disperse_var"]

ObjectiveValue(prob, sol, w) ==
    CASE prob.objective = "fac_vars" -> SumOver(Facilities, sol.fac)
      [] prob.objective = "cli_vars" -> SumOver(Clients, sol.cli)
      [] prob.objective = "weighted_cli_vars" ->
            SumOver(Clients, [i \in Clients |-> w[i] * sol.cli[i]])
      [] prob.objective = "disperse_var" -> sol.D

Problem(obj, rows) ==
    [sense |-> obj.sense, objective |-> obj.objective, constraints |-> rows]

NoProblem == Problem([sense |-> "min", objective |-> "none"], {})

----------------------------------------------------------------------------
(* The external solver: exact, opaque.  Binary facility and client          *)
(* variables, D continuous with lower bound 0 (its optimum is attained at   *)
(* an integer because every bound on it is one).                            *)

DCap(cm) == 3 * BigM(cm)

Candidates(prob, has, cm) ==
    [fac : [Facilities -> {0, 1}],
     cli : IF "cli_vars" \in has THEN [Clients -> {0, 1}] ELSE {ZeroCli},
     D : IF "disperse_var" \in has THEN 0 .. DCap(cm) ELSE {0}]

Feasible(prob, has, a, cm) ==
    {sol \in Candidates(prob, has, cm) :
        \A c \in prob.constraints : RowHolds(c, sol, a, cm)}

\* the best objective value among a non-empty set of values
Best(prob, V) ==
    IF prob.sense = "min"
    THEN CHOOSE v \in V : \A u \in V : v <= u
    ELSE CHOOSE v \in V : \A u \in V : v >= u

OptimalSolutions(prob, F, w) ==
    LET best == Best(prob, {ObjectiveValue(prob, t, w) : t \in F})
    IN {s \in F : ObjectiveValue(prob, s, w) = best}

\* D has no upper bound when no dispersion row mentions it
Unbounded(prob) ==
    /\ prob.objective = "disperse_var"
    /\ \A c \in prob.constraints : c.family # "dispersion"

\* What problem.solve(solver) can leave behind: a status and variable values
SolverOutcomes(prob, has, a, cm, w) ==
    LET F == Feasible(prob, has, a, cm)
    IN IF F = {} THEN {[status |-> "Infeasible", sol |-> [fac |-> ZeroFac, cli |-> ZeroCli, D |-> 0]]}
       ELSE IF Unbounded(prob)
       THEN {[status |-> "Unbounded", sol |-> [fac |-> ZeroFac, cli |-> ZeroCli, D |-> 0]]}
       ELSE {[status |-> "Optimal", sol |-> s] : s \in OptimalSolutions(prob, F, w)}

\* LocateSolver.check_status: raises RuntimeError unless the status is Optimal
check_status(st) == IF st # "Optimal" THEN "RuntimeError" ELSE ""

----------------------------------------------------------------------------
(* Model assemblers: what from_cost_matrix leaves on the new instance *)

Instance(has, a, prob, budget) ==
    [attrs |-> has, aij |-> a, problem |-> prob, lscp_obj_value |-> budget]

NoMatrix == [i \in Clients |-> ZeroFac]

\* Mutant: the set-covering rows are never added
LSCP_from_cost_matrix_NoCovering(cm, radius, predefined) ==
    Instance({"fac_vars", "aij"},
             CoverageMatrix(cm, radius),
             Problem(LSCP_add_obj, add_predefined_facility_constraint(predefined)),
             0)

LSCP_from_cost_matrix(cm, radius, predefined) ==
    LET r_fac == Facilities
        r_cli == DOMAIN cm
    IN Instance({"fac_vars", "aij"},
                CoverageMatrix(cm, radius),
                Problem(LSCP_add_obj,
                        add_predefined_facility_constraint(predefined)
                            \cup add_set_covering_constraint(r_cli)),
                0)

\* Mutant: the facility-count row with the budget is never added
LSCPB_from_cost_matrix_NoBudget(cm, radius, predefined, budget) ==
    Instance({"fac_vars", "cli_vars", "aij", "lscp_obj_value", "solver"},
             CoverageMatrix(cm, radius),
             Problem(LSCPB_add_obj,
                     add_predefined_facility_constraint(predefined)
                         \cup add_backup_covering_constraint(DOMAIN cm)),
             budget)

\* Mutant: the budget row allows one facility less than the LSCP needed
LSCPB_from_cost_matrix_TightBudget(cm, radius, predefined, budget) ==
    Instance({"fac_vars", "cli_vars", "aij", "lscp_obj_value", "solver"},
             CoverageMatrix(cm, radius),
             Problem(LSCPB_add_obj,
                     add_predefined_facility_constraint(predefined)
                         \cup add_facility_constraint(budget - 1)
                         \cup add_backup_covering_constraint(DOMAIN cm)),
             budget)

\* Mutant: the backup-covering rows are never added
LSCPB_from_cost_matrix_NoBackupCovering(cm, radius, predefined, budget) ==
    Instance({"fac_vars", "cli_vars", "aij", "lscp_obj_value", "solver"},
             CoverageMatrix(cm, radius),
             Problem(LSCPB_add_obj,
                     add_predefined_facility_constraint(predefined)
                         \cup add_facility_constraint(budget)),
             budget)

\* The part of LSCPB.from_cost_matrix after the internal LSCP was solved
LSCPB_from_cost_matrix(cm, radius, predefined, budget) ==
    LET r_fac == Facilities
        r_cli == DOMAIN cm
    IN Instance({"fac_vars", "cli_vars", "aij", "lscp_obj_value", "solver"},
                CoverageMatrix(cm, radius),
                Problem(LSCPB_add_obj,
                        add_predefined_facility_constraint(predefined)
                            \cup add_facility_constraint(budget)
                            \cup add_backup_covering_constraint(r_cli)),
                budget)

\* Mutant: the predefined-facility rows are never added
MCLP_from_cost_matrix_NoPredefined(cm, w, radius, p, predefined) ==
    Instance({"fac_vars", "cli_vars", "aij"},
             CoverageMatrix(cm, radius),
             Problem(MCLP_add_obj,
                     add_maximal_coverage_constraint(DOMAIN cm)
                         \cup add_facility_constraint(p)),
             0)

MCLP_from_cost_matrix(cm, w, radius, p, predefined) ==
    LET r_fac == Facilities
        r_cli == DOMAIN cm
    IN Instance({"fac_vars", "cli_vars", "aij"},
                CoverageMatrix(cm, radius),
                Problem(MCLP_add_obj,
                        add_predefined_facility_constraint(predefined)
                            \cup add_maximal_coverage_constraint(r_cli)
                            \cup add_facility_constraint(p)),
                0)

\* Mutant: the facility-count row is never added
PDispersion_from_cost_matrix_NoCount(cm, p_fac, predefined) ==
    Instance({"disperse_var", "fac_vars", "p_facilities"},
             NoMatrix,
             Problem(PDispersion_add_obj,
                     add_predefined_facility_constraint(predefined)
                         \cup add_p_dispersion_interfacility_constraint(cm, Facilities)),
             0)

PDispersion_from_cost_matrix(cm, p_fac, predefined) ==
    LET r_fac == Facilities
    IN Instance({"disperse_var", "fac_vars", "p_facilities"},
                NoMatrix,
                Problem(PDispersion_add_obj,
                        add_facility_constraint(p_fac)
                            \cup add_predefined_facility_constraint(predefined)
                            \cup add_p_dispersion_interfacility_constraint(cm, r_fac)),
                0)

----------------------------------------------------------------------------
(* Result extractor *)

\* LSCP.facility_client_array
LSCP_facility_client_array(fv, a) ==
    [j \in Facilities |->
        IF fv[j] > 0
        THEN SelectSeq(Range(NumCli), LAMBDA i : a[i][j] > 0)
        ELSE <<>>]

\* Mutant: the value of the facility variable is not looked at
LSCPB_facility_client_array_AnyFacility(fv, a) ==
    [j \in Facilities |-> SelectSeq(Range(NumCli), LAMBDA i : a[i][j] > 0)]

\* LSCPB.facility_client_array
LSCPB_facility_client_array(fv, a) ==
    [j \in Facilities |->
        IF fv[j] > 0
        THEN SelectSeq(Range(NumCli), LAMBDA i : a[i][j] > 0)
        ELSE <<>>]

\* Mutant: the client variables are not looked at
MCLP_facility_client_array_NoClientFilter(fv, cv, a) ==
    [j \in Facilities |->
        IF fv[j] > 0
        THEN SelectSeq(Range(NumCli), LAMBDA i : a[i][j] > 0)
        ELSE <<>>]

\* MCLP.facility_client_array
MCLP_facility_client_array(fv, cv, a) ==
    [j \in Facilities |->
        IF fv[j] > 0
        THEN SelectSeq(Range(NumCli), LAMBDA i : cv[i] > 0 /\ a[i][j] > 0)
        ELSE <<>>]

\* BaseOutputMixin.client_facility_array: the index-inverse of fac2cli
client_facility_array(f2c) ==
    [i \in Clients |->
        SelectSeq(Range(NumFac), LAMBDA j : i \in Elems(f2c[j]))]

\* CoveragePercentageMixin.uncovered_clients: clients with an empty cli2fac entry
uncovered_clients(c2f) == Cardinality({i \in Clients : Len(c2f[i]) = 0})

\* part / whole * 100, kept exact as a fraction num / den
Percent(part, whole) == [num |-> 100 * part, den |-> whole]

\* CoveragePercentageMixin.get_percentage:
\* perc_cov = covered clients / total clients * 100
coverage_get_percentage(n_uncov) == Percent(NumCli - n_uncov, NumCli)

\* BackupPercentageMixinMixin.get_percentage:
\* backup_perc = clients covered by two or more open facilities / total clients * 100
backup_get_percentage(c2f) ==
    Percent(Cardinality({i \in Clients : Len(c2f[i]) >= 2}), NumCli)

----------------------------------------------------------------------------
(* Inputs the caller may pass *)

Kinds == {"LSCP", "LSCPB", "MCLP", "PDispersion"}

\* The service radius every coverage instance is built with, and the costs
\* its matrix may hold: exactly at the radius, or beyond it.
Radius == {1}
CostValues == {1, 2}

\* Distances between two distinct candidate sites (PDispersion)
Distances == {1, 2, 3}

\* clients x facilities cost matrices
CoverageCosts == [Clients -> [Facilities -> CostValues]]

\* facilities x facilities distance matrices: symmetric, zero diagonal
FacilityPairs == {q \in Facilities \X Facilities : q[1] < q[2]}

DistanceCosts ==
    {[i \in Facilities |->
        [j \in Facilities |->
            IF i = j THEN 0
            ELSE IF i < j THEN d[<<i, j>>] ELSE d[<<j, i>>]]] :
     d \in [FacilityPairs -> Distances]}

\* None (no forced facility) or one forced facility
PredefinedArrays == {{}, {0}}

WeightArrays == [Clients -> 0 .. MaxWeight]

FacilityCounts == 0 .. NumFac

\* A call as the caller wrote it: the method, the `results` argument of
\* solve() and the coordinate reference systems of the layers handed to
\* from_geodataframe.
Call(op, res, crs) == [op |-> op, results |-> res, crs |-> crs]

NoCRS == <<>>

\* Reference systems of the demand layer and the facility layer
CRSs == {"EPSG:4326", "EPSG:3857"}

LayerCRS == CRSs \X CRSs

\* k_array as the caller passed it: a numpy array or a plain list, with one
\* k per client
KArray(numpy, k) == [numpy |-> numpy, k |-> k]

\* Below the range, its two ends, above it
KValues == {0, 1, NumFac, NumFac + 1}

KArrays == {KArray(t, k) : t \in BOOLEAN, k \in [Clients -> KValues]}

NoCapacity == <<>>

\* None, or capacity 2 at the first h sites and 1 at the others
CapacityArrays ==
    {NoCapacity} \cup
        {[j \in Facilities |-> IF j < h THEN 2 ELSE 1] : h \in 0 .. NumFac}

DemandArrays == [Clients -> 1 .. 2]

\* Client i's distances to the candidate sites are pairwise distinct
KNearestCosts ==
    {[i \in Clients |-> [j \in Facilities |-> 1 + ((i + j + s) % NumFac)]] :
        s \in 0 .. 1}

\* The layers of test_knearest_p_median.py, distances kept by their rank:
\* facility 0 is the nearest site of every client, and the farther sites
\* come in a different order for every client.
TestSolveCosts ==
    [i \in Clients |->
        [j \in Facilities |->
            IF j = 0 THEN 1 ELSE 2 + ((j - 1 + i) % (NumFac - 1))]]

\* The classes without capacities and k-nearest candidates take neither argument
NoMedianArguments ==
    /\ facility_capacity = NoCapacity
    /\ k_array = KArray(TRUE, [i \in Clients |-> NumFac])

\* No client holds an assignment: -1 stands for no facility
NoFacility == 0 - 1

Unassigned == [i \in Clients |-> NoFacility]

\* No second instance
NoInstance == <<>>

\* No instance exists yet
Fresh ==
    /\ pc = "new"
    /\ attrs = {}
    /\ aij = NoMatrix
    /\ lscp_obj_value = 0
    /\ problem = NoProblem
    /\ status = "Not Solved"
    /\ fac_vars = ZeroFac
    /\ cli_vars = ZeroCli
    /\ disperse_var = 0
    /\ cli_assgn_vars = Unassigned
    /\ fac2cli = EmptyFac2Cli
    /\ cli2fac = EmptyCli2Fac
    /\ n_cli_uncov = 0
    /\ percentage = Percent(0, NumCli)
    /\ mean_dist = Percent(0, NumCli)
    /\ solves = 0
    /\ raised = ""
    /\ invoked = <<>>
    /\ last_call = Call("none", TRUE, NoCRS)
    /\ solver_calls = 0

InitOf(K) ==
    /\ kind \in K
    /\ predefined_facilities_arr \in PredefinedArrays
    /\ service_radius \in Radius
    /\ IF kind = "PDispersion"
       THEN cost_matrix \in DistanceCosts
       ELSE cost_matrix \in CoverageCosts
    /\ IF kind = "MCLP"
       THEN weights \in WeightArrays
       ELSE weights = ZeroCli
    /\ IF kind \in {"MCLP", "PDispersion"}
       THEN p_facilities \in FacilityCounts
       ELSE p_facilities = 0
    /\ NoMedianArguments
    /\ Fresh
    /\ other = NoInstance

----------------------------------------------------------------------------
(* Construction *)

Build(inst) ==
    /\ pc' = "built"
    /\ attrs' = inst.attrs
    /\ aij' = inst.aij
    /\ problem' = inst.problem
    /\ lscp_obj_value' = inst.lscp_obj_value
    /\ raised' = ""
    /\ invoked' = <<>>
    /\ UNCHANGED <<inputs, other, status, fac_vars, cli_vars, disperse_var, cli_assgn_vars, results, solves>>

\* from_cost_matrix of each class, as run for the caller or for from_geodataframe
LSCPConstruct ==
    /\ Build(LSCP_from_cost_matrix(cost_matrix, service_radius,
                                   predefined_facilities_arr))
    /\ UNCHANGED solver_calls

\* Mutant: the LSCP solved for the budget is an LSCP instance that already
\* exists, when there is one
LSCPBConstruct_SharedLSCP ==
    /\ LET lscp == LSCP_from_cost_matrix(cost_matrix, service_radius,
                                         predefined_facilities_arr)
       IN \E out \in SolverOutcomes(lscp.problem, lscp.attrs, lscp.aij,
                                    cost_matrix, weights) :
            /\ IF check_status(out.status) # ""
               THEN /\ pc' = "failed"
                    /\ raised' = check_status(out.status)
                    /\ UNCHANGED <<attrs, aij, problem, lscp_obj_value>>
               ELSE LET inst == LSCPB_from_cost_matrix(
                                    cost_matrix, service_radius,
                                    predefined_facilities_arr,
                                    ObjectiveValue(lscp.problem, out.sol, weights))
                    IN /\ pc' = "built"
                       /\ attrs' = inst.attrs
                       /\ aij' = inst.aij
                       /\ problem' = inst.problem
                       /\ lscp_obj_value' = inst.lscp_obj_value
                       /\ raised' = ""
            /\ other' = IF other # NoInstance /\ other.kind = "LSCP"
                        THEN [other EXCEPT !.status = out.status,
                                           !.fac_vars = out.sol.fac,
                                           !.aij = lscp.aij]
                        ELSE other
    /\ invoked' = <<>>
    /\ solver_calls' = solver_calls + 1
    /\ UNCHANGED <<inputs, status, fac_vars, cli_vars, disperse_var, cli_assgn_vars,
                   results, solves>>

\* Builds and solves an LSCP first; its objective value is the budget.
LSCPBConstruct ==
    /\ LET lscp == LSCP_from_cost_matrix(cost_matrix, service_radius,
                                         predefined_facilities_arr)
       IN \E out \in SolverOutcomes(lscp.problem, lscp.attrs, lscp.aij,
                                    cost_matrix, weights) :
            IF check_status(out.status) # ""
            THEN /\ pc' = "failed"
                 /\ raised' = check_status(out.status)
                 /\ invoked' = <<>>
                 /\ UNCHANGED <<inputs, other, attrs, aij, problem, lscp_obj_value,
                                status, fac_vars, cli_vars, disperse_var, cli_assgn_vars, results,
                                solves>>
            ELSE Build(LSCPB_from_cost_matrix(
                        cost_matrix, service_radius, predefined_facilities_arr,
                        ObjectiveValue(lscp.problem, out.sol, weights)))
    /\ solver_calls' = solver_calls + 1

MCLPConstruct ==
    /\ Build(MCLP_from_cost_matrix(cost_matrix, weights, service_radius,
                                   p_facilities, predefined_facilities_arr))
    /\ UNCHANGED solver_calls

PDispersionConstruct ==
    /\ Build(PDispersion_from_cost_matrix(cost_matrix, p_facilities,
                                          predefined_facilities_arr))
    /\ UNCHANGED solver_calls

LSCPFromCostMatrix ==
    /\ pc = "new" /\ kind = "LSCP"
    /\ last_call' = Call("from_cost_matrix", TRUE, NoCRS)
    /\ LSCPConstruct

LSCPBFromCostMatrix ==
    /\ pc = "new" /\ kind = "LSCPB"
    /\ last_call' = Call("from_cost_matrix", TRUE, NoCRS)
    /\ LSCPBConstruct

MCLPFromCostMatrix ==
    /\ pc = "new" /\ kind = "MCLP"
    /\ last_call' = Call("from_cost_matrix", TRUE, NoCRS)
    /\ MCLPConstruct

PDispersionFromCostMatrix ==
    /\ pc = "new" /\ kind = "PDispersion"
    /\ last_call' = Call("from_cost_matrix", TRUE, NoCRS)
    /\ PDispersionConstruct

\* raise ValueError("Geodataframes crs are different: ...")
CrsMismatch ==
    /\ pc' = "failed"
    /\ raised' = "ValueError"
    /\ invoked' = <<>>
    /\ UNCHANGED <<inputs, other, attrs, aij, problem, lscp_obj_value, status, fac_vars,
                   cli_vars, disperse_var, cli_assgn_vars, results, solves, solver_calls>>

\* from_geodataframe of the coverage classes: the layers' reference systems
\* are compared, then the distances between the layers (the cost matrix) go
\* to from_cost_matrix.
LSCPFromGeodataframe ==
    /\ pc = "new" /\ kind = "LSCP"
    /\ \E crs \in LayerCRS :
        /\ last_call' = Call("from_geodataframe", TRUE, crs)
        /\ IF crs[1] # crs[2] THEN CrsMismatch ELSE LSCPConstruct

\* Mutant: the layers' reference systems are compared after the model was built
LSCPBFromGeodataframe_CheckLast ==
    /\ pc = "new" /\ kind = "LSCPB"
    /\ \E crs \in LayerCRS :
        /\ last_call' = Call("from_geodataframe", TRUE, crs)
        /\ IF crs[1] # crs[2]
           THEN /\ pc' = "failed"
                /\ raised' = "ValueError"
                /\ invoked' = <<>>
                /\ solver_calls' = solver_calls + 1
                /\ UNCHANGED <<inputs, other, attrs, aij, problem, lscp_obj_value, status,
                               fac_vars, cli_vars, disperse_var, cli_assgn_vars, results, solves>>
           ELSE LSCPBConstruct

LSCPBFromGeodataframe ==
    /\ pc = "new" /\ kind = "LSCPB"
    /\ \E crs \in LayerCRS :
        /\ last_call' = Call("from_geodataframe", TRUE, crs)
        /\ IF crs[1] # crs[2] THEN CrsMismatch ELSE LSCPBConstruct

MCLPFromGeodataframe ==
    /\ pc = "new" /\ kind = "MCLP"
    /\ \E crs \in LayerCRS :
        /\ last_call' = Call("from_geodataframe", TRUE, crs)
        /\ IF crs[1] # crs[2] THEN CrsMismatch ELSE MCLPConstruct

\* PDispersion.from_geodataframe takes the facility layer only and compares
\* no reference systems, whatever layers the caller holds.
PDispersionFromGeodataframe ==
    /\ pc = "new" /\ kind = "PDispersion"
    /\ \E crs \in LayerCRS :
        /\ last_call' = Call("from_geodataframe", TRUE, crs)
        /\ PDispersionConstruct

----------------------------------------------------------------------------
(* KNearestPMedian.  The class is not among the sources; its construction   *)
(* follows the specification and the calls of test_knearest_p_median.py.    *)

\* minimise the demand-weighted distance of the assignments
KNearestPMedian_add_obj == [sense |-> "min", objective |-> "weighted_cli_assgn_vars"]

\* The k facilities nearest to client i (ties go to the lower index)
KNearest(cm, i, k) ==
    {j \in Facilities :
        Cardinality({h \in Facilities :
                        \/ cm[i][h] < cm[i][j]
                        \/ cm[i][h] = cm[i][j] /\ h < j}) < k}

\* every client is assigned once, to one of its k nearest facilities
add_assignment_constraint(r_cli) ==
    {Row("assignment", i, 0, 1) : i \in r_cli}

\* Demand-weighted distances from every client to its k nearest facilities;
\* the other entries of the sparse matrix are empty.
SparseWeightedCosts(cm, w, k) ==
    [i \in Clients |->
        [j \in Facilities |->
            IF j \in KNearest(cm, i, k[i]) THEN w[i] * cm[i][j] ELSE 0]]

\* the demand assigned to facility j stays within its capacity
add_facility_capacity_constraint(cap) ==
    IF cap = NoCapacity THEN {}
    ELSE {Row("capacity", 0, j, cap[j]) : j \in Facilities}

TotalDemand(w) == SumOver(Clients, w)

\* The capacity of the p sites with the highest capacity
HighestPossibleCapacity(cap, p) ==
    LET sums == {SumOver(S, cap) : S \in {T \in SUBSET Facilities : Cardinality(T) = p}}
    IN  CHOOSE m \in sums : \A n \in sums : n <= m

KNearestPMedian_from_cost_matrix(cm, w, p, k, cap) ==
    Instance({"fac_vars", "cli_assgn_vars"},
             SparseWeightedCosts(cm, w, k),
             Problem(KNearestPMedian_add_obj,
                     add_assignment_constraint(Clients)
                        \cup add_facility_capacity_constraint(cap)
                        \cup add_facility_constraint(p)),
             0)

\* A construction call that raises: no instance, nothing handed to the solver
Reject(err) ==
    /\ pc' = "failed"
    /\ raised' = err
    /\ invoked' = <<>>
    /\ UNCHANGED <<inputs, other, attrs, aij, problem, lscp_obj_value, status, fac_vars,
                   cli_vars, disperse_var, cli_assgn_vars, results, solves, solver_calls>>

\* Mutant: the capacities are not compared with the demand
KNearestPMedianConstruct_NoCapacityCheck ==
    IF ~k_array.numpy
    THEN Reject("TypeError")
    ELSE IF \E i \in Clients : k_array.k[i] \notin 1 .. NumFac
    THEN Reject("ValueError")
    ELSE /\ Build(KNearestPMedian_from_cost_matrix(cost_matrix, weights, p_facilities,
                                                   k_array.k, facility_capacity))
         /\ UNCHANGED solver_calls

\* Mutant: only the first entry of k_array is compared with the range
KNearestPMedianConstruct_FirstEntryOnly ==
    IF ~k_array.numpy
    THEN Reject("TypeError")
    ELSE IF k_array.k[0] \notin 1 .. NumFac
    THEN Reject("ValueError")
    ELSE IF /\ facility_capacity # NoCapacity
            /\ HighestPossibleCapacity(facility_capacity, p_facilities)
                    < TotalDemand(weights)
    THEN Reject("SpecificationError")
    ELSE /\ Build(KNearestPMedian_from_cost_matrix(cost_matrix, weights, p_facilities,
                                                   k_array.k, facility_capacity))
         /\ UNCHANGED solver_calls

\* k_array is validated, then the demand is compared with the capacity the
\* p sites can offer at most, then the model is built.
KNearestPMedianConstruct ==
    IF ~k_array.numpy
    THEN Reject("TypeError")
    ELSE IF \E i \in Clients : k_array.k[i] \notin 1 .. NumFac
    THEN Reject("ValueError")
    ELSE IF /\ facility_capacity # NoCapacity
            /\ HighestPossibleCapacity(facility_capacity, p_facilities)
                    < TotalDemand(weights)
    THEN Reject("SpecificationError")
    ELSE /\ Build(KNearestPMedian_from_cost_matrix(cost_matrix, weights, p_facilities,
                                                   k_array.k, facility_capacity))
         /\ UNCHANGED solver_calls

KNearestPMedianFromCostMatrix ==
    /\ pc = "new" /\ kind = "KNearestPMedian"
    /\ last_call' = Call("from_cost_matrix", TRUE, NoCRS)
    /\ KNearestPMedianConstruct

KNearestPMedianFromGeodataframe ==
    /\ pc = "new" /\ kind = "KNearestPMedian"
    /\ \E crs \in LayerCRS :
        /\ last_call' = Call("from_geodataframe", TRUE, crs)
        /\ IF crs[1] # crs[2] THEN CrsMismatch ELSE KNearestPMedianConstruct

----------------------------------------------------------------------------
(* solve() *)

\* Mutant: the status the solver returned is never checked
ProblemSolve_Unchecked(out) ==
    /\ solves' = solves + 1
    /\ solver_calls' = solver_calls + 1
    /\ status' = out.status
    /\ IF out.status = "Optimal"
       THEN /\ fac_vars' = out.sol.fac
            /\ cli_vars' = out.sol.cli
            /\ disperse_var' = out.sol.D
            /\ UNCHANGED cli_assgn_vars
       ELSE UNCHANGED <<fac_vars, cli_vars, disperse_var, cli_assgn_vars>>
    /\ raised' = ""

\* self.problem.solve(solver); self.check_status()
ProblemSolve(out) ==
    /\ solves' = solves + 1
    /\ solver_calls' = solver_calls + 1
    /\ status' = out.status
    /\ IF out.status = "Optimal"
       THEN /\ fac_vars' = out.sol.fac
            /\ cli_vars' = out.sol.cli
            /\ disperse_var' = out.sol.D
            /\ UNCHANGED cli_assgn_vars
       ELSE UNCHANGED <<fac_vars, cli_vars, disperse_var, cli_assgn_vars>>
    /\ raised' = check_status(out.status)

NoExtraction ==
    /\ invoked' = <<>>
    /\ UNCHANGED <<attrs, results>>

\* Mutant: client_facility_array runs before facility_client_array
LSCPSolve_InverseFirst ==
    /\ pc = "built" /\ kind = "LSCP"
    /\ solves < MaxSolves
    /\ \E out \in SolverOutcomes(problem, attrs, aij, cost_matrix, weights) :
      \E res \in BOOLEAN :
        /\ ProblemSolve(out)
        /\ last_call' = Call("solve", res, NoCRS)
        /\ IF raised' = "" /\ res
           THEN /\ cli2fac' = client_facility_array(fac2cli)
                /\ fac2cli' = LSCP_facility_client_array(fac_vars', aij)
                /\ attrs' = attrs \cup {"fac2cli", "cli2fac"}
                /\ invoked' = <<"client_facility_array", "facility_client_array">>
                /\ UNCHANGED <<n_cli_uncov, percentage, mean_dist>>
           ELSE NoExtraction
    /\ UNCHANGED <<inputs, other, pc, aij, problem, lscp_obj_value>>

\* Mutant: a solve() that extracts nothing clears the result arrays
LSCPBSolve_ClearsResults ==
    /\ pc = "built" /\ kind = "LSCPB"
    /\ solves < MaxSolves
    /\ \E out \in SolverOutcomes(problem, attrs, aij, cost_matrix, weights) :
      \E res \in BOOLEAN :
        /\ ProblemSolve(out)
        /\ last_call' = Call("solve", res, NoCRS)
        /\ IF raised' = "" /\ res
           THEN /\ fac2cli' = LSCPB_facility_client_array(fac_vars', aij)
                /\ cli2fac' = client_facility_array(fac2cli')
                /\ percentage' = backup_get_percentage(cli2fac')
                /\ UNCHANGED mean_dist
                /\ attrs' = attrs \cup {"fac2cli", "cli2fac", "backup_perc"}
                /\ invoked' = <<"facility_client_array", "client_facility_array",
                                "get_percentage">>
                /\ UNCHANGED n_cli_uncov
           ELSE /\ fac2cli' = EmptyFac2Cli
                /\ cli2fac' = EmptyCli2Fac
                /\ percentage' = Percent(0, NumCli)
                /\ attrs' = attrs \ {"fac2cli", "cli2fac", "backup_perc"}
                /\ invoked' = <<>>
                /\ UNCHANGED <<n_cli_uncov, mean_dist>>
    /\ UNCHANGED <<inputs, other, pc, aij, problem, lscp_obj_value>>

\* Mutant: solve() leaves an empty coverage matrix behind
LSCPSolve_ClearsMatrix ==
    /\ pc = "built" /\ kind = "LSCP"
    /\ solves < MaxSolves
    /\ \E out \in SolverOutcomes(problem, attrs, aij, cost_matrix, weights) :
      \E res \in BOOLEAN :
        /\ ProblemSolve(out)
        /\ last_call' = Call("solve", res, NoCRS)
        /\ IF raised' = "" /\ res
           THEN /\ fac2cli' = LSCP_facility_client_array(fac_vars', aij)
                /\ cli2fac' = client_facility_array(fac2cli')
                /\ attrs' = attrs \cup {"fac2cli", "cli2fac"}
                /\ invoked' = <<"facility_client_array", "client_facility_array">>
                /\ UNCHANGED <<n_cli_uncov, percentage, mean_dist>>
           ELSE NoExtraction
    /\ aij' = NoMatrix
    /\ UNCHANGED <<inputs, other, pc, problem, lscp_obj_value>>

LSCPSolve ==
    /\ pc = "built" /\ kind = "LSCP"
    /\ solves < MaxSolves
    /\ \E out \in SolverOutcomes(problem, attrs, aij, cost_matrix, weights) :
      \E res \in BOOLEAN :
        /\ ProblemSolve(out)
        /\ last_call' = Call("solve", res, NoCRS)
        /\ IF raised' = "" /\ res
           THEN /\ fac2cli' = LSCP_facility_client_array(fac_vars', aij)
                /\ cli2fac' = client_facility_array(fac2cli')
                /\ attrs' = attrs \cup {"fac2cli", "cli2fac"}
                /\ invoked' = <<"facility_client_array", "client_facility_array">>
                /\ UNCHANGED <<n_cli_uncov, percentage, mean_dist>>
           ELSE NoExtraction
    /\ UNCHANGED <<inputs, other, pc, aij, problem, lscp_obj_value>>

LSCPBSolve ==
    /\ pc = "built" /\ kind = "LSCPB"
    /\ solves < MaxSolves
    /\ \E out \in SolverOutcomes(problem, attrs, aij, cost_matrix, weights) :
      \E res \in BOOLEAN :
        /\ ProblemSolve(out)
        /\ last_call' = Call("solve", res, NoCRS)
        /\ IF raised' = "" /\ res
           THEN /\ fac2cli' = LSCPB_facility_client_array(fac_vars', aij)
                /\ cli2fac' = client_facility_array(fac2cli')
                /\ percentage' = backup_get_percentage(cli2fac')
                /\ UNCHANGED mean_dist
                /\ attrs' = attrs \cup {"fac2cli", "cli2fac", "backup_perc"}
                /\ invoked' = <<"facility_client_array", "client_facility_array",
                                "get_percentage">>
                /\ UNCHANGED n_cli_uncov
           ELSE NoExtraction
    /\ UNCHANGED <<inputs, other, pc, aij, problem, lscp_obj_value>>

\* Mutant: the `results` argument is not looked at
MCLPSolve_AlwaysExtract ==
    /\ pc = "built" /\ kind = "MCLP"
    /\ solves < MaxSolves
    /\ \E out \in SolverOutcomes(problem, attrs, aij, cost_matrix, weights) :
      \E res \in BOOLEAN :
        /\ ProblemSolve(out)
        /\ last_call' = Call("solve", res, NoCRS)
        /\ IF raised' = ""
           THEN /\ fac2cli' = MCLP_facility_client_array(fac_vars', cli_vars', aij)
                /\ cli2fac' = client_facility_array(fac2cli')
                /\ n_cli_uncov' = uncovered_clients(cli2fac')
                /\ percentage' = coverage_get_percentage(n_cli_uncov')
                /\ UNCHANGED mean_dist
                /\ attrs' = attrs \cup {"fac2cli", "cli2fac", "n_cli_uncov", "perc_cov"}
                /\ invoked' = <<"facility_client_array", "client_facility_array",
                                "uncovered_clients", "get_percentage">>
           ELSE NoExtraction
    /\ UNCHANGED <<inputs, other, pc, aij, problem, lscp_obj_value>>

\* Mutant: the uncovered clients are counted before cli2fac is rebuilt
MCLPSolve_CountFirst ==
    /\ pc = "built" /\ kind = "MCLP"
    /\ solves < MaxSolves
    /\ \E out \in SolverOutcomes(problem, attrs, aij, cost_matrix, weights) :
      \E res \in BOOLEAN :
        /\ ProblemSolve(out)
        /\ last_call' = Call("solve", res, NoCRS)
        /\ IF raised' = "" /\ res
           THEN /\ fac2cli' = MCLP_facility_client_array(fac_vars', cli_vars', aij)
                /\ n_cli_uncov' = uncovered_clients(cli2fac)
                /\ cli2fac' = client_facility_array(fac2cli')
                /\ percentage' = coverage_get_percentage(n_cli_uncov')
                /\ UNCHANGED mean_dist
                /\ attrs' = attrs \cup {"fac2cli", "cli2fac", "n_cli_uncov", "perc_cov"}
                /\ invoked' = <<"facility_client_array", "uncovered_clients",
                                "client_facility_array", "get_percentage">>
           ELSE NoExtraction
    /\ UNCHANGED <<inputs, other, pc, aij, problem, lscp_obj_value>>

\* Mutant: the status is checked only after the results were extracted
MCLPSolve_CheckLast ==
    /\ pc = "built" /\ kind = "MCLP"
    /\ solves < MaxSolves
    /\ \E out \in SolverOutcomes(problem, attrs, aij, cost_matrix, weights) :
      \E res \in BOOLEAN :
        /\ ProblemSolve(out)
        /\ last_call' = Call("solve", res, NoCRS)
        /\ IF res
           THEN /\ fac2cli' = MCLP_facility_client_array(fac_vars', cli_vars', aij)
                /\ cli2fac' = client_facility_array(fac2cli')
                /\ n_cli_uncov' = uncovered_clients(cli2fac')
                /\ percentage' = coverage_get_percentage(n_cli_uncov')
                /\ UNCHANGED mean_dist
                /\ attrs' = attrs \cup {"fac2cli", "cli2fac", "n_cli_uncov", "perc_cov"}
                /\ invoked' = <<"facility_client_array", "client_facility_array",
                                "uncovered_clients", "get_percentage">>
           ELSE NoExtraction
    /\ UNCHANGED <<inputs, other, pc, aij, problem, lscp_obj_value>>

MCLPSolve ==
    /\ pc = "built" /\ kind = "MCLP"
    /\ solves < MaxSolves
    /\ \E out \in SolverOutcomes(problem, attrs, aij, cost_matrix, weights) :
      \E res \in BOOLEAN :
        /\ ProblemSolve(out)
        /\ last_call' = Call("solve", res, NoCRS)
        /\ IF raised' = "" /\ res
           THEN /\ fac2cli' = MCLP_facility_client_array(fac_vars', cli_vars', aij)
                /\ cli2fac' = client_facility_array(fac2cli')
                /\ n_cli_uncov' = uncovered_clients(cli2fac')
                /\ percentage' = coverage_get_percentage(n_cli_uncov')
                /\ UNCHANGED mean_dist
                /\ attrs' = attrs \cup {"fac2cli", "cli2fac", "n_cli_uncov", "perc_cov"}
                /\ invoked' = <<"facility_client_array", "client_facility_array",
                                "uncovered_clients", "get_percentage">>
           ELSE NoExtraction
    /\ UNCHANGED <<inputs, other, pc, aij, problem, lscp_obj_value>>

\* PDispersion.solve extracts nothing, whatever `results` is
PDispersionSolve ==
    /\ pc = "built" /\ kind = "PDispersion"
    /\ solves < MaxSolves
    /\ \E out \in SolverOutcomes(problem, attrs, aij, cost_matrix, weights) :
      \E res \in BOOLEAN :
        /\ ProblemSolve(out)
        /\ last_call' = Call("solve", res, NoCRS)
        /\ NoExtraction
    /\ UNCHANGED <<inputs, other, pc, aij, problem, lscp_obj_value>>

----------------------------------------------------------------------------
(* The extraction methods called directly on a solved coverage model *)

\* Mutant: the entries found are appended to the entries already there
CallFacilityClientArray_Append ==
    /\ pc = "built" /\ status = "Optimal"
    /\ kind \in {"LSCP", "LSCPB", "MCLP"}
    /\ LET found == CASE kind = "LSCP" -> LSCP_facility_client_array(fac_vars, aij)
                      [] kind = "LSCPB" -> LSCPB_facility_client_array(fac_vars, aij)
                      [] kind = "MCLP" ->
                           MCLP_facility_client_array(fac_vars, cli_vars, aij)
       IN fac2cli' = [j \in Facilities |->
                        IF Len(fac2cli[j]) < NumCli
                        THEN fac2cli[j] \o found[j] ELSE fac2cli[j]]
    /\ attrs' = attrs \cup {"fac2cli"}
    /\ raised' = ""
    /\ invoked' = <<"facility_client_array">>
    /\ last_call' = Call("facility_client_array", TRUE, NoCRS)
    /\ UNCHANGED <<inputs, other, pc, aij, problem, lscp_obj_value, status, fac_vars,
                   cli_vars, disperse_var, cli_assgn_vars, cli2fac, n_cli_uncov, percentage, mean_dist, solves,
                   solver_calls>>

CallFacilityClientArray ==
    /\ pc = "built" /\ status = "Optimal"
    /\ kind \in {"LSCP", "LSCPB", "MCLP"}
    /\ fac2cli' = CASE kind = "LSCP" -> LSCP_facility_client_array(fac_vars, aij)
                    [] kind = "LSCPB" -> LSCPB_facility_client_array(fac_vars, aij)
                    [] kind = "MCLP" ->
                         MCLP_facility_client_array(fac_vars, cli_vars, aij)
    /\ attrs' = attrs \cup {"fac2cli"}
    /\ raised' = ""
    /\ invoked' = <<"facility_client_array">>
    /\ last_call' = Call("facility_client_array", TRUE, NoCRS)
    /\ UNCHANGED <<inputs, other, pc, aij, problem, lscp_obj_value, status, fac_vars,
                   cli_vars, disperse_var, cli_assgn_vars, cli2fac, n_cli_uncov, percentage, mean_dist, solves,
                   solver_calls>>

CallClientFacilityArray ==
    /\ pc = "built" /\ status = "Optimal"
    /\ kind \in {"LSCP", "LSCPB", "MCLP"}
    /\ "fac2cli" \in attrs
    /\ cli2fac' = client_facility_array(fac2cli)
    /\ attrs' = attrs \cup {"cli2fac"}
    /\ raised' = ""
    /\ invoked' = <<"client_facility_array">>
    /\ last_call' = Call("client_facility_array", TRUE, NoCRS)
    /\ UNCHANGED <<inputs, other, pc, aij, problem, lscp_obj_value, status, fac_vars,
                   cli_vars, disperse_var, cli_assgn_vars, fac2cli, n_cli_uncov, percentage, mean_dist, solves,
                   solver_calls>>

\* The demand assigned to facility j
Load(assgn, w, j) ==
    SumOver({i \in Clients : assgn[i] = j}, w)

\* What a client costs while no facility among its candidates serves it
PlaceholderCost(cm) ==
    1 + Max({cm[i][j] : i \in Clients, j \in Facilities})

\* Mutant: the capacities of the facilities do not limit their load
KNearestFeasible_NoCapacity(cm, w, p, k, cap) ==
    {s \in [fac : [Facilities -> {0, 1}],
            assgn : [Clients -> Facilities \cup {NoFacility}]] :
        /\ SumOver(Facilities, s.fac) = p
        /\ \A i \in Clients :
              IF s.assgn[i] = NoFacility
              THEN k[i] < NumFac
              ELSE /\ s.assgn[i] \in KNearest(cm, i, k[i])
                   /\ s.fac[s.assgn[i]] = 1}

\* The solutions of the problem restricted to every client's k nearest
\* facilities: p facilities open, every client at an open candidate within
\* its capacity, or at its placeholder while its candidates can still grow.
KNearestFeasible(cm, w, p, k, cap) ==
    {s \in [fac : [Facilities -> {0, 1}],
            assgn : [Clients -> Facilities \cup {NoFacility}]] :
        /\ SumOver(Facilities, s.fac) = p
        /\ \A i \in Clients :
              IF s.assgn[i] = NoFacility
              THEN k[i] < NumFac
              ELSE /\ s.assgn[i] \in KNearest(cm, i, k[i])
                   /\ s.fac[s.assgn[i]] = 1
        /\ cap # NoCapacity =>
              \A j \in Facilities : Load(s.assgn, w, j) <= cap[j] * s.fac[j]}

KNearestCost(cm, w, s) ==
    SumOver(Clients,
            [i \in Clients |->
                w[i] * (IF s.assgn[i] = NoFacility
                        THEN PlaceholderCost(cm)
                        ELSE cm[i][s.assgn[i]])])

KNearestBest(cm, w, F) ==
    LET costs == {KNearestCost(cm, w, t) : t \in F}
        best == CHOOSE v \in costs : \A u \in costs : v <= u
    IN {s \in F : KNearestCost(cm, w, s) = best}

\* The clients left at their placeholder get one more candidate
IncreaseK(k, assgn) ==
    [i \in Clients |-> IF assgn[i] = NoFacility THEN k[i] + 1 ELSE k[i]]

\* solve() of KNearestPMedian: the restricted problem is solved, and solved
\* again with more candidates while a client is left at its placeholder.
\* Every outcome the solver may return in every round is followed; n counts
\* the problems handed to the solver.
RECURSIVE KNearestOutcomes(_, _, _, _, _, _)
KNearestOutcomes(cm, w, p, k, cap, n) ==
    LET F == KNearestFeasible(cm, w, p, k, cap)
    IN IF F = {}
       THEN {[status |-> "Infeasible", calls |-> n + 1,
              sol |-> [fac |-> ZeroFac, assgn |-> Unassigned]]}
       ELSE UNION {IF \A i \in Clients : s.assgn[i] # NoFacility
                   THEN {[status |-> "Optimal", calls |-> n + 1, sol |-> s]}
                   ELSE KNearestOutcomes(cm, w, p, IncreaseK(k, s.assgn), cap, n + 1) :
                   s \in KNearestBest(cm, w, F)}

\* fac2cli of an assignment model: the clients assigned to each facility
KNearestPMedian_facility_client_array(assgn) ==
    [j \in Facilities |-> SelectSeq(Range(NumCli), LAMBDA i : assgn[i] = j)]

\* total / count, kept exact as a fraction num / den
Mean(total, count) == [num |-> total, den |-> count]

\* The average cost over the realized (client, facility) pairs
get_mean_distance(cm, c2f) ==
    Mean(SumOver(Clients,
                 [i \in Clients |->
                    SumOver(Elems(c2f[i]), [j \in Facilities |-> cm[i][j]])]),
         SumOver(Clients, [i \in Clients |-> Len(c2f[i])]))

KNearestPMedianSolve ==
    /\ pc = "built" /\ kind = "KNearestPMedian"
    /\ solves < MaxSolves
    /\ \E out \in KNearestOutcomes(cost_matrix, weights, p_facilities, k_array.k,
                                    facility_capacity, 0) :
      \E res \in BOOLEAN :
        /\ solves' = solves + 1
        /\ solver_calls' = solver_calls + out.calls
        /\ status' = out.status
        /\ IF out.status = "Optimal"
           THEN /\ fac_vars' = out.sol.fac
                /\ cli_assgn_vars' = out.sol.assgn
           ELSE UNCHANGED <<fac_vars, cli_assgn_vars>>
        /\ raised' = check_status(out.status)
        /\ last_call' = Call("solve", res, NoCRS)
        /\ IF raised' = "" /\ res
           THEN /\ fac2cli' = KNearestPMedian_facility_client_array(cli_assgn_vars')
                /\ cli2fac' = client_facility_array(fac2cli')
                /\ mean_dist' = get_mean_distance(cost_matrix, cli2fac')
                /\ attrs' = attrs \cup {"fac2cli", "cli2fac", "mean_dist"}
                /\ invoked' = <<"facility_client_array", "client_facility_array",
                                "get_mean_distance">>
                /\ UNCHANGED <<n_cli_uncov, percentage>>
           ELSE NoExtraction
    /\ UNCHANGED <<inputs, other, pc, aij, problem, lscp_obj_value, cli_vars, disperse_var>>

----------------------------------------------------------------------------

Next ==
    \/ LSCPFromCostMatrix
    \/ LSCPBFromCostMatrix
    \/ MCLPFromCostMatrix
    \/ PDispersionFromCostMatrix
    \/ LSCPFromGeodataframe
    \/ LSCPBFromGeodataframe
    \/ MCLPFromGeodataframe
    \/ PDispersionFromGeodataframe
    \/ LSCPSolve
    \/ LSCPBSolve
    \/ MCLPSolve
    \/ PDispersionSolve
    \/ CallFacilityClientArray
    \/ CallClientFacilityArray

Init == InitOf(Kinds)

Spec == Init /\ [][Next]_vars

\* One class at a time
NextLSCP ==
    \/ LSCPFromCostMatrix
    \/ LSCPFromGeodataframe
    \/ LSCPSolve
    \/ CallFacilityClientArray
    \/ CallClientFacilityArray

SpecLSCP == InitOf({"LSCP"}) /\ [][NextLSCP]_vars

NextLSCPB ==
    \/ LSCPBFromCostMatrix
    \/ LSCPBFromGeodataframe
    \/ LSCPBSolve
    \/ CallFacilityClientArray
    \/ CallClientFacilityArray

SpecLSCPB == InitOf({"LSCPB"}) /\ [][NextLSCPB]_vars

NextMCLP ==
    \/ MCLPFromCostMatrix
    \/ MCLPFromGeodataframe
    \/ MCLPSolve
    \/ CallFacilityClientArray
    \/ CallClientFacilityArray

SpecMCLP == InitOf({"MCLP"}) /\ [][NextMCLP]_vars

NextPDispersion ==
    \/ PDispersionFromCostMatrix
    \/ PDispersionFromGeodataframe
    \/ PDispersionSolve

SpecPDispersion == InitOf({"PDispersion"}) /\ [][NextPDispersion]_vars

\* The coverage classes built on cost matrices with entries below, at and
\* above the service radius (entry = client offset + facility offset).
ThresholdCosts ==
    {[i \in Clients |-> [j \in Facilities |-> r[i] + f[j]]] :
        r \in [Clients -> 0 .. 2], f \in [Facilities -> 0 .. 1]}

ThresholdRadius == {1, 2}

InitThreshold ==
    /\ kind \in {"LSCP", "LSCPB", "MCLP"}
    /\ predefined_facilities_arr = {}
    /\ service_radius \in ThresholdRadius
    /\ cost_matrix \in ThresholdCosts
    /\ weights = [i \in Clients |-> IF kind = "MCLP" THEN 1 ELSE 0]
    /\ p_facilities = IF kind = "MCLP" THEN 1 ELSE 0
    /\ NoMedianArguments
    /\ Fresh
    /\ other = NoInstance

NextThreshold ==
    \/ LSCPFromCostMatrix
    \/ LSCPBFromCostMatrix
    \/ MCLPFromCostMatrix

SpecThreshold == InitThreshold /\ [][NextThreshold]_vars

\* KNearestPMedian, as far as its construction goes
InitKNearestPMedian ==
    /\ kind = "KNearestPMedian"
    /\ predefined_facilities_arr = {}
    /\ service_radius \in Radius
    /\ cost_matrix \in KNearestCosts \cup {TestSolveCosts}
    /\ weights \in DemandArrays
    /\ p_facilities \in 1 .. NumFac
    /\ facility_capacity \in CapacityArrays
    /\ k_array \in KArrays
    /\ Fresh
    /\ other = NoInstance

NextKNearestPMedian ==
    \/ KNearestPMedianFromCostMatrix
    \/ KNearestPMedianFromGeodataframe
    \/ KNearestPMedianSolve

SpecKNearestPMedian == InitKNearestPMedian /\ [][NextKNearestPMedian]_vars

----------------------------------------------------------------------------
(* Two instances.  Each caller holds one; the variables above are those of  *)
(* the instance whose caller runs, `other` keeps the second instance.       *)

\* The instance whose caller runs, as one value
Self ==
    [kind |-> kind,
     cost_matrix |-> cost_matrix,
     service_radius |-> service_radius,
     weights |-> weights,
     p_facilities |-> p_facilities,
     predefined_facilities_arr |-> predefined_facilities_arr,
     facility_capacity |-> facility_capacity,
     k_array |-> k_array,
     pc |-> pc,
     attrs |-> attrs,
     aij |-> aij,
     lscp_obj_value |-> lscp_obj_value,
     problem |-> problem,
     status |-> status,
     fac_vars |-> fac_vars,
     cli_vars |-> cli_vars,
     disperse_var |-> disperse_var,
     cli_assgn_vars |-> cli_assgn_vars,
     fac2cli |-> fac2cli,
     cli2fac |-> cli2fac,
     n_cli_uncov |-> n_cli_uncov,
     percentage |-> percentage,
     mean_dist |-> mean_dist,
     solves |-> solves,
     raised |-> raised,
     invoked |-> invoked,
     last_call |-> last_call,
     solver_calls |-> solver_calls]

\* An instance of a coverage class nobody has constructed yet
FreshInstance(k, cm, radius) ==
    [kind |-> k,
     cost_matrix |-> cm,
     service_radius |-> radius,
     weights |-> ZeroCli,
     p_facilities |-> 0,
     predefined_facilities_arr |-> {},
     facility_capacity |-> NoCapacity,
     k_array |-> KArray(TRUE, [i \in Clients |-> NumFac]),
     pc |-> "new",
     attrs |-> {},
     aij |-> NoMatrix,
     lscp_obj_value |-> 0,
     problem |-> NoProblem,
     status |-> "Not Solved",
     fac_vars |-> ZeroFac,
     cli_vars |-> ZeroCli,
     disperse_var |-> 0,
     cli_assgn_vars |-> Unassigned,
     fac2cli |-> EmptyFac2Cli,
     cli2fac |-> EmptyCli2Fac,
     n_cli_uncov |-> 0,
     percentage |-> Percent(0, NumCli),
     mean_dist |-> Percent(0, NumCli),
     solves |-> 0,
     raised |-> "",
     invoked |-> <<>>,
     last_call |-> Call("none", TRUE, NoCRS),
     solver_calls |-> 0]

\* The other caller runs from here on
Switch ==
    /\ other # NoInstance
    /\ other' = Self
    /\ kind' = other.kind
    /\ cost_matrix' = other.cost_matrix
    /\ service_radius' = other.service_radius
    /\ weights' = other.weights
    /\ p_facilities' = other.p_facilities
    /\ predefined_facilities_arr' = other.predefined_facilities_arr
    /\ facility_capacity' = other.facility_capacity
    /\ k_array' = other.k_array
    /\ pc' = other.pc
    /\ attrs' = other.attrs
    /\ aij' = other.aij
    /\ lscp_obj_value' = other.lscp_obj_value
    /\ problem' = other.problem
    /\ status' = other.status
    /\ fac_vars' = other.fac_vars
    /\ cli_vars' = other.cli_vars
    /\ disperse_var' = other.disperse_var
    /\ cli_assgn_vars' = other.cli_assgn_vars
    /\ fac2cli' = other.fac2cli
    /\ cli2fac' = other.cli2fac
    /\ n_cli_uncov' = other.n_cli_uncov
    /\ percentage' = other.percentage
    /\ mean_dist' = other.mean_dist
    /\ solves' = other.solves
    /\ raised' = other.raised
    /\ invoked' = other.invoked
    /\ last_call' = other.last_call
    /\ solver_calls' = other.solver_calls

\* Cost matrices of the two callers: every client has a site within the
\* radius, with a different site for every client or the same for all
PairCosts ==
    {[i \in Clients |-> [j \in Facilities |-> IF j = (i * s) % NumFac THEN 1 ELSE 2]] :
        s \in 0 .. 1}

PairKinds == {"LSCP", "LSCPB"}

InitPair ==
    /\ kind \in PairKinds
    /\ predefined_facilities_arr = {}
    /\ service_radius \in Radius
    /\ cost_matrix \in PairCosts
    /\ weights = ZeroCli
    /\ p_facilities = 0
    /\ NoMedianArguments
    /\ Fresh
    /\ other \in {FreshInstance(k, cm, radius) :
                    k \in PairKinds, cm \in PairCosts, radius \in Radius}

NextPair ==
    \/ LSCPFromCostMatrix
    \/ LSCPBFromCostMatrix
    \/ LSCPSolve
    \/ LSCPBSolve
    \/ CallFacilityClientArray
    \/ CallClientFacilityArray
    \/ Switch

SpecPair == InitPair /\ [][NextPair]_vars

----------------------------------------------------------------------------
(* Reference values the claims compare the solved models with *)

Min(S) == CHOOSE x \in S : \A y \in S : x <= y

Open(y) == {j \in Facilities : y[j] > 0}

\* the clients that have a facility of T within the service radius
CoveredBy(a, T) == {i \in Clients : \E j \in T : a[i][j] = 1}

\* the clients that have two or more facilities of T within the service radius
BackedUpBy(a, T) ==
    {i \in Clients : Cardinality({j \in T : a[i][j] = 1}) >= 2}

\* the facility sets that cover every client
Covers(a) == {T \in SUBSET Facilities : CoveredBy(a, T) = Clients}

\* the facility sets of exactly p members
OfSize(p) == {T \in SUBSET Facilities : Cardinality(T) = p}

Including(predefined, Ts) == {T \in Ts : predefined \subseteq T}

\* smallest pairwise cost within a set of two or more facilities
PairMin(cm, T) == Min({cm[q[1]][q[2]] : q \in {r \in T \X T : r[1] < r[2]}})

WeightOf(w, I) == SumOver(I, w)

Solved == pc = "built" /\ status = "Optimal"

JustExtracted == "client_facility_array" \in Elems(invoked)

----------------------------------------------------------------------------
(* C1 - C5 *)

\* C1: every LSCP whose result arrays were extracted has a non-empty cli2fac
\* entry for every client; when some client has no candidate facility within
\* the radius, solve() raises and leaves no result array behind.
C1_CoverageInvariant ==
    kind = "LSCP" =>
        /\ "cli2fac" \in attrs => \A i \in Clients : Len(cli2fac[i]) > 0
        /\ (solves > 0 /\ CoveredBy(aij, Facilities) # Clients) =>
                /\ raised = "RuntimeError"
                /\ "fac2cli" \notin attrs
                /\ "cli2fac" \notin attrs

C1_Witness ==
    /\ kind = "LSCP" /\ Solved /\ JustExtracted
    /\ \E j \in Facilities : fac_vars[j] = 0
    /\ \E i \in Clients : Len(cli2fac[i]) = 1

\* C2: right after the extraction step (facility_client_array followed by
\* client_facility_array) of an LSCP, LSCPB or MCLP, client i is in fac2cli[j]
\* exactly when facility j is in cli2fac[i].
C2_AdjacencySymmetry ==
    JustExtracted =>
        \A j \in Facilities, i \in Clients :
            (i \in Elems(fac2cli[j])) <=> (j \in Elems(cli2fac[i]))

C2_Witness ==
    /\ kind = "MCLP" /\ JustExtracted
    /\ \E j \in Facilities, i \in Clients : i \in Elems(fac2cli[j])
    /\ \E j \in Facilities, i \in Clients :
            /\ fac_vars[j] > 0 /\ aij[i][j] > 0
            /\ j \notin Elems(cli2fac[i])

\* C3: a solve() call that ends with a status other than Optimal raises
\* RuntimeError, invokes no extraction method and writes no result attribute.
C3_NoExtractionOnFailure ==
    [][(solves' = solves + 1 /\ status' # "Optimal") =>
            /\ raised' = "RuntimeError"
            /\ invoked' = <<>>
            /\ attrs' = attrs
            /\ results' = results]_vars

C3_Witness ==
    /\ kind = "MCLP" /\ solves = MaxSolves
    /\ status = "Infeasible" /\ raised = "RuntimeError"
    /\ "fac2cli" \notin attrs

\* C4: once solve() has run on a model built with p_facilities = 0 the status
\* is not Optimal (solve() raised RuntimeError).
C4_ZeroFacilitiesRaise ==
    (kind \in {"MCLP", "PDispersion"} /\ p_facilities = 0 /\ solves > 0) =>
        status # "Optimal"

\* C5: in every solved MCLP or PDispersion the number of facilities whose
\* variable is 1 is exactly p_facilities.
C5_Cardinality ==
    (kind \in {"MCLP", "PDispersion"} /\ Solved) =>
        Cardinality({j \in Facilities : fac_vars[j] = 1}) = p_facilities

C5_Witness ==
    /\ kind = "PDispersion" /\ Solved
    /\ p_facilities = 2
    /\ Cardinality(Open(fac_vars)) = 2

----------------------------------------------------------------------------
(* C6 - C10 *)

\* the value D takes when only the pairs of open facilities bound it
SelectedPairMin(cm, y) == PairMin(cm, Open(y))

\* C6 as stated: the optimal objective of a PDispersion with p >= 2 is the
\* largest minimum pairwise cost over all sets of exactly p candidates.
C6_MaxMinOverAllSubsets ==
    (kind = "PDispersion" /\ Solved /\ p_facilities >= 2) =>
        disperse_var = Max({PairMin(cost_matrix, T) : T \in OfSize(p_facilities)})

\* C6 amended: for p >= 2 the optimal objective is the largest minimum
\* pairwise cost over the sets of exactly p candidates that contain every
\* predefined facility, and it is the minimum pairwise cost among the
\* selected facilities (no pair with an unselected facility lowers D).
C6_MaxMinOverAdmissibleSubsets ==
    (kind = "PDispersion" /\ Solved /\ p_facilities >= 2) =>
        /\ disperse_var =
              Max({PairMin(cost_matrix, T) :
                     T \in Including(predefined_facilities_arr, OfSize(p_facilities))})
        /\ disperse_var = SelectedPairMin(cost_matrix, fac_vars)

C6_Witness ==
    /\ kind = "PDispersion" /\ Solved /\ p_facilities = 2
    /\ predefined_facilities_arr = {}
    /\ disperse_var = 3
    /\ \E T \in OfSize(2) : PairMin(cost_matrix, T) = 1

\* C7 as stated: the optimal LSCP objective is the size of a smallest set of
\* candidate facilities that covers every client.
C7_MinimumCover ==
    (kind = "LSCP" /\ Solved) =>
        Cardinality(Open(fac_vars)) = Min({Cardinality(T) : T \in Covers(aij)})

\* C7 amended: the optimal LSCP objective is the size of a smallest set of
\* candidate facilities that contains every predefined facility and covers
\* every client.
C7_MinimumAdmissibleCover ==
    (kind = "LSCP" /\ Solved) =>
        Cardinality(Open(fac_vars)) =
            Min({Cardinality(T) :
                    T \in Including(predefined_facilities_arr, Covers(aij))})

C7_Witness ==
    /\ kind = "LSCP" /\ Solved
    /\ Cardinality(Open(fac_vars)) = 2
    /\ \A T \in OfSize(1) : T \notin Covers(aij)

\* the MCLP objective value of the solved variables
MCLPObjective == SumOver(Clients, [i \in Clients |-> weights[i] * cli_vars[i]])

\* C8 as stated: the optimal MCLP objective is the largest covered weight over
\* all sets of exactly p facilities, and a client variable is 1 only if an
\* open facility covers the client.
C8_MaximalCoverage ==
    (kind = "MCLP" /\ Solved) =>
        /\ MCLPObjective =
              Max({WeightOf(weights, CoveredBy(aij, T)) : T \in OfSize(p_facilities)})
        /\ \A i \in Clients :
              cli_vars[i] = 1 => i \in CoveredBy(aij, Open(fac_vars))

\* C8 amended: the optimal MCLP objective is the largest covered weight over
\* the sets of exactly p facilities that contain every predefined facility,
\* and a client variable is 1 only if an open facility covers the client.
C8_MaximalAdmissibleCoverage ==
    (kind = "MCLP" /\ Solved) =>
        /\ MCLPObjective =
              Max({WeightOf(weights, CoveredBy(aij, T)) :
                     T \in Including(predefined_facilities_arr, OfSize(p_facilities))})
        /\ \A i \in Clients :
              cli_vars[i] = 1 => i \in CoveredBy(aij, Open(fac_vars))

C8_Witness ==
    /\ kind = "MCLP" /\ Solved /\ p_facilities = 1
    /\ MCLPObjective = 1
    /\ \E i \in Clients : weights[i] = 1 /\ cli_vars[i] = 0
    /\ \E T \in OfSize(1) : WeightOf(weights, CoveredBy(aij, T)) = 0

\* the facility sets an LSCPB may open: they contain the predefined
\* facilities, cover every client and respect the budget
Budgeted(a, predefined, budget) ==
    {T \in Including(predefined, Covers(a)) : Cardinality(T) <= budget}

\* C9: the budget of an LSCPB is the optimal objective of the LSCP on the same
\* cost matrix, radius and predefined facilities; a solved LSCPB opens no more
\* facilities than the budget and backs up as many clients as any facility
\* set it may open.
C9_BackupWithinBudget ==
    (kind = "LSCPB" /\ pc = "built") =>
        /\ lscp_obj_value =
              Min({Cardinality(T) :
                     T \in Including(predefined_facilities_arr,
                                     Covers(CoverageMatrix(cost_matrix, service_radius)))})
        /\ Solved =>
              /\ Cardinality(Open(fac_vars)) <= lscp_obj_value
              /\ Cardinality(BackedUpBy(aij, Open(fac_vars))) =
                    Max({Cardinality(BackedUpBy(aij, T)) :
                           T \in Budgeted(aij, predefined_facilities_arr, lscp_obj_value)})
              /\ SumOver(Clients, cli_vars) =
                    Cardinality(BackedUpBy(aij, Open(fac_vars)))

C9_Witness ==
    /\ kind = "LSCPB" /\ Solved /\ lscp_obj_value = 2
    /\ Cardinality(BackedUpBy(aij, Open(fac_vars))) = 1
    /\ \E T \in Budgeted(aij, predefined_facilities_arr, lscp_obj_value) :
            BackedUpBy(aij, T) = {}

\* C10: right after facility_client_array ran, every facility whose variable
\* is 0 has an empty fac2cli entry.
C10_ClosedFacilityServesNobody ==
    "facility_client_array" \in Elems(invoked) =>
        \A j \in Facilities : fac_vars[j] = 0 => fac2cli[j] = <<>>

C10_Witness ==
    /\ kind = "LSCPB" /\ "facility_client_array" \in Elems(invoked)
    /\ \E j \in Facilities :
            /\ fac_vars[j] = 0 /\ fac2cli[j] = <<>>
            /\ \E i \in Clients : aij[i][j] = 1
    /\ \E j \in Facilities : fac2cli[j] # <<>>

----------------------------------------------------------------------------
(* C11 - C20 *)

\* the attributes the result extraction writes
ResultAttrs ==
    {"fac2cli", "cli2fac", "n_cli_uncov", "perc_cov", "backup_perc", "mean_dist"}

\* C11: after the first solve() on an instance was called with results=False,
\* none of fac2cli, cli2fac and the derived metrics is an attribute of the
\* instance.
C11_NoResultsLeavesUnset ==
    (last_call.op = "solve" /\ ~last_call.results /\ solves = 1) =>
        attrs \cap ResultAttrs = {}

C11_Witness ==
    /\ kind = "MCLP" /\ Solved /\ solves = 1
    /\ last_call.op = "solve" /\ ~last_call.results
    /\ \E j \in Facilities : fac_vars[j] = 1
    /\ \E i \in Clients : cli_vars[i] = 1
    /\ "fac2cli" \notin attrs /\ "perc_cov" \notin attrs

\* C12: after a solve() called with results=True ended with status Optimal,
\* fac2cli and cli2fac are attributes of the instance, whatever its class.
C12_ResultsPopulated ==
    (last_call.op = "solve" /\ last_call.results /\ raised = "") =>
        {"fac2cli", "cli2fac"} \subseteq attrs

\* C13: running facility_client_array again on a model whose fac2cli was just
\* extracted, or client_facility_array again on one whose cli2fac was just
\* extracted, leaves the array as it was; so does a solve() that extracts
\* after an extracting solve() returned the same variable values.
C13_ExtractionIdempotent ==
    [][/\ ("facility_client_array" \in Elems(invoked)
            /\ last_call'.op = "facility_client_array") => fac2cli' = fac2cli
       /\ ("client_facility_array" \in Elems(invoked)
            /\ last_call'.op = "client_facility_array") => cli2fac' = cli2fac
       /\ (/\ last_call.op = "solve" /\ JustExtracted
           /\ solves' = solves + 1 /\ "client_facility_array" \in Elems(invoked')
           /\ fac_vars' = fac_vars /\ cli_vars' = cli_vars)
              => (fac2cli' = fac2cli /\ cli2fac' = cli2fac)]_vars

C13_Witness ==
    /\ kind = "LSCP" /\ last_call.op = "facility_client_array"
    /\ "cli2fac" \in attrs
    /\ \E j \in Facilities : Len(fac2cli[j]) = NumCli
    /\ \E j \in Facilities : fac2cli[j] = <<>>

\* a percentage between 0 and 100
WithinPercentRange(pct) == pct.den > 0 /\ 0 <= pct.num /\ pct.num <= 100 * pct.den

\* C14: right after a solve() with results that ended Optimal, perc_cov of an
\* MCLP and backup_perc of an LSCPB lie in [0, 100], and for an MCLP
\* n_cli_uncov plus the number of clients with a non-empty cli2fac entry is
\* the number of clients.
C14_PercentageBounds ==
    (last_call.op = "solve" /\ last_call.results /\ raised = "") =>
        /\ kind \in {"MCLP", "LSCPB"} => WithinPercentRange(percentage)
        /\ kind = "MCLP" =>
              n_cli_uncov + Cardinality({i \in Clients : cli2fac[i] # <<>>}) = NumCli

C14_Witness ==
    /\ kind = "MCLP" /\ last_call.op = "solve" /\ last_call.results /\ raised = ""
    /\ "perc_cov" \in attrs
    /\ n_cli_uncov = 1
    /\ percentage = Percent(NumCli - 1, NumCli)
    /\ \E i \in Clients : cli2fac[i] # <<>>

\* C15: in every solved model each predefined facility has its facility
\* variable at 1.
C15_PredefinedOpen ==
    Solved => \A j \in predefined_facilities_arr : fac_vars[j] = 1

C15_Witness ==
    /\ kind = "MCLP" /\ Solved /\ p_facilities = 1
    /\ predefined_facilities_arr = {0} /\ fac_vars[0] = 1
    /\ \A i \in Clients : aij[i][0] = 0 /\ weights[i] = 1
    /\ \E j \in Facilities : \A i \in Clients : aij[i][j] = 1

\* every client has a candidate facility within the service radius
Coverable(a) == \A i \in Clients : \E j \in Facilities : a[i][j] = 1

\* C16: a solve() of an LSCP ends Optimal exactly when every client has a
\* candidate facility with aij = 1; when some client has none it raises
\* RuntimeError and the instance gets neither fac2cli nor cli2fac.
C16_LSCPFeasibility ==
    (kind = "LSCP" /\ solves > 0) =>
        /\ status = "Optimal" <=> Coverable(aij)
        /\ ~Coverable(aij) =>
              /\ status = "Infeasible" /\ raised = "RuntimeError"
              /\ "fac2cli" \notin attrs /\ "cli2fac" \notin attrs

C16_Witness ==
    /\ kind = "LSCP" /\ solves = MaxSolves /\ status = "Infeasible"
    /\ last_call = Call("solve", TRUE, NoCRS) /\ raised = "RuntimeError"
    /\ \E i \in Clients : \A j \in Facilities : aij[i][j] = 0
    /\ \E i \in Clients : \A j \in Facilities : aij[i][j] = 1

InputErrors == {"ValueError", "TypeError"}

C19_CrsMismatchRejected ==
    (last_call.op = "from_geodataframe" /\ last_call.crs[1] # last_call.crs[2]) =>
        (pc = "failed" /\ raised = "ValueError")

\* C20: a capacitated KNearestPMedian whose total demand exceeds the capacity
\* of its candidate facilities is rejected at construction with a
\* SpecificationError, before any problem is handed to the solver.
DemandExceedsCapacity ==
    /\ kind = "KNearestPMedian"
    /\ k_array.numpy
    /\ \A i \in Clients : k_array.k[i] \in 1 .. NumFac
    /\ facility_capacity # NoCapacity
    /\ last_call.op \in {"from_cost_matrix", "from_geodataframe"}
    /\ last_call.op = "from_geodataframe" => last_call.crs[1] = last_call.crs[2]
    /\ TotalDemand(weights) > SumOver(Facilities, facility_capacity)

C20_DemandOverCapacityRejected ==
    DemandExceedsCapacity =>
        /\ pc = "failed"
        /\ raised = "SpecificationError"
        /\ solver_calls = 0
        /\ solves = 0
        /\ status = "Not Solved"

C20_Witness ==
    /\ DemandExceedsCapacity
    /\ raised = "SpecificationError"
    /\ p_facilities = NumFac
    /\ last_call.op = "from_geodataframe"

----------------------------------------------------------------------------
(* C21 - C30 *)

\* A construction call of KNearestPMedian that got past the comparison of the
\* layers' reference systems
KNearestPMedianConstructed ==
    /\ kind = "KNearestPMedian"
    /\ last_call.op \in {"from_cost_matrix", "from_geodataframe"}
    /\ last_call.op = "from_geodataframe" => last_call.crs[1] = last_call.crs[2]

KOutOfRange == {i \in Clients : k_array.k[i] \notin 1 .. NumFac}

\* C21: KNearestPMedian construction rejects a k_array that is not a numpy
\* array with TypeError and one with any entry outside 1..number of
\* facilities with ValueError, and nothing is solved in either case.
C21_InvalidKArrayRejected ==
    KNearestPMedianConstructed =>
        /\ ~k_array.numpy =>
                pc = "failed" /\ raised = "TypeError" /\ solver_calls = 0
        /\ k_array.numpy /\ KOutOfRange # {} =>
                pc = "failed" /\ raised = "ValueError" /\ solver_calls = 0
        /\ k_array.numpy /\ KOutOfRange = {} => raised \notin {"TypeError", "ValueError"}

\* only the last entry is out of range; a list is rejected for its type
C21_Witness ==
    /\ KNearestPMedianConstructed
    /\ k_array.numpy
    /\ KOutOfRange = {NumCli - 1}
    /\ k_array.k[NumCli - 1] = NumFac + 1
    /\ raised = "ValueError"

\* test_solve: unit demands, unit capacities, two facilities to open, one
\* candidate per client, solved with results
TestSolveScenario ==
    /\ kind = "KNearestPMedian"
    /\ cost_matrix = TestSolveCosts
    /\ weights = [i \in Clients |-> 1]
    /\ facility_capacity = [j \in Facilities |-> 1]
    /\ p_facilities = 2
    /\ k_array = KArray(TRUE, [i \in Clients |-> 1])
    /\ last_call = Call("solve", TRUE, NoCRS)

\* facility 0 serves client 1, facility 1 serves client 0
TestSolveFac2Cli ==
    [j \in Facilities |-> IF j = 0 THEN <<1>> ELSE IF j = 1 THEN <<0>> ELSE <<>>]

TestSolveCli2Fac ==
    [i \in Clients |-> IF i = 0 THEN <<1>> ELSE IF i = 1 THEN <<0>> ELSE <<>>]

\* facility 0 serves client 0, facility 2 serves client 1
MirroredFac2Cli ==
    [j \in Facilities |-> IF j = 0 THEN <<0>> ELSE IF j = 2 THEN <<1>> ELSE <<>>]

MirroredCli2Fac ==
    [i \in Clients |-> IF i = 0 THEN <<0>> ELSE IF i = 1 THEN <<2>> ELSE <<>>]

\* The cost of the pairs (client, facility) that cli2fac holds
RealizedCost ==
    SumOver(Clients,
            [i \in Clients |->
                SumOver(Elems(cli2fac[i]), [j \in Facilities |-> cost_matrix[i][j]])])

StrictlyAscending(q) == \A m, n \in 1 .. Len(q) : m < n => q[m] < q[n]

\* C23: right after facility_client_array ran, client i is in fac2cli[j]
\* exactly when FacilityVar[j] > 0 and aij[i][j] > 0 (LSCP, LSCPB), for MCLP
\* exactly when moreover ClientVar[i] > 0; every entry lists its clients in
\* ascending order, none twice.
C23_Fac2CliMembership ==
    (kind \in {"LSCP", "LSCPB", "MCLP"} /\ "facility_client_array" \in Elems(invoked)) =>
        \A j \in Facilities :
            /\ \A i \in Clients :
                  i \in Elems(fac2cli[j]) <=>
                    /\ fac_vars[j] > 0
                    /\ aij[i][j] > 0
                    /\ kind = "MCLP" => cli_vars[i] > 0
            /\ StrictlyAscending(fac2cli[j])

\* an MCLP whose open facility covers a client that is left out for its
\* ClientVar, while another client is listed
C23_Witness ==
    /\ kind = "MCLP" /\ "facility_client_array" \in Elems(invoked)
    /\ \E j \in Facilities, i \in Clients :
            /\ fac_vars[j] > 0 /\ aij[i][j] > 0 /\ cli_vars[i] = 0
            /\ i \notin Elems(fac2cli[j])
    /\ \E j \in Facilities : fac2cli[j] # <<>>

DecisionVariables == <<fac_vars, cli_vars, disperse_var>>

\* C24: once an instance is built, no solve() and no result extraction
\* changes its coverage matrix aij or the caller's cost matrix, and a result
\* extraction leaves the values of the decision variables as they were.
C24_MatricesReadOnly ==
    [][pc = "built" =>
        /\ aij' = aij
        /\ cost_matrix' = cost_matrix
        /\ last_call'.op \in {"facility_client_array", "client_facility_array"} =>
                DecisionVariables' = DecisionVariables]_vars

\* solved more than once and extracted from, the matrix is still the one the
\* construction computed
C24_Witness ==
    /\ kind = "LSCP" /\ solves >= 2
    /\ last_call.op = "client_facility_array"
    /\ aij = CoverageMatrix(cost_matrix, service_radius)
    /\ \E i \in Clients, j \in Facilities : aij[i][j] = 1
    /\ \E i \in Clients, j \in Facilities : aij[i][j] = 0

\* What an instance of LSCP or LSCPB holds when its operations ran alone:
\* the coverage matrix of its own cost matrix, the budget of its own minimum
\* cover, a solution covering its own clients, result arrays read from its
\* own variables, and the solver calls made on its behalf.
AsAlone(r) ==
    LET a == CoverageMatrix(r.cost_matrix, r.service_radius)
        mincover == Min({Cardinality(T) : T \in Covers(a)})
    IN /\ r.pc = "built" => r.aij = a
       /\ r.pc # "built" => r.aij = NoMatrix /\ r.status = "Not Solved"
       /\ (r.pc = "built" /\ r.kind = "LSCPB") => r.lscp_obj_value = mincover
       /\ r.status = "Optimal" =>
            /\ CoveredBy(a, Open(r.fac_vars)) = Clients
            /\ Cardinality(Open(r.fac_vars)) = mincover
       /\ "facility_client_array" \in Elems(r.invoked) =>
            r.fac2cli = LSCP_facility_client_array(r.fac_vars, a)
       /\ "client_facility_array" \in Elems(r.invoked) =>
            r.cli2fac = client_facility_array(r.fac2cli)
       /\ r.solver_calls =
            r.solves + (IF r.kind = "LSCPB" /\ r.pc # "new" THEN 1 ELSE 0)

\* C25: of two instances whose construction, solve and extraction steps
\* interleave in any order, each holds at every moment what it holds when
\* its operations run alone, and a step on one instance (the construction of
\* an LSCPB with its internal LSCP included) changes nothing of the other.
C25_InstancesIndependent ==
    /\ [](AsAlone(Self) /\ AsAlone(other))
    /\ [][\/ other' = other
          \/ other' = Self /\ Self' = other]_vars

\* an LSCPB was constructed and solved while the LSCP of another caller,
\* built on another cost matrix, was solved and its results extracted
C25_Witness ==
    /\ kind = "LSCPB" /\ status = "Optimal" /\ "cli2fac" \in attrs
    /\ other.kind = "LSCP" /\ other.status = "Optimal" /\ "cli2fac" \in other.attrs
    /\ other.cost_matrix # cost_matrix
    /\ other.fac_vars # fac_vars
    /\ other.aij # aij

\* The open sets an optimal solution of the internal LSCP may have: the
\* smallest covers that hold every predefined facility
LSCPOptima(a, predefined) ==
    LET C == Including(predefined, Covers(a))
    IN {T \in C : \A U \in C : Cardinality(T) <= Cardinality(U)}

\* the facilities of T open, no client counted as backed up
KeepOpen(T) ==
    [fac |-> [j \in Facilities |-> IF j \in T THEN 1 ELSE 0],
     cli |-> ZeroCli,
     D |-> 0]

\* C26: every LSCPB that from_cost_matrix returned is feasible: the open
\* facilities of any optimal solution of its internal LSCP, with every
\* ClientVar at 0, satisfy all its rows; so no solve() of it ends with another
\* status than Optimal.
C26_LSCPBFeasible ==
    (kind = "LSCPB" /\ pc = "built") =>
        /\ LSCPOptima(aij, predefined_facilities_arr) # {}
        /\ \A T \in LSCPOptima(aij, predefined_facilities_arr) :
                KeepOpen(T) \in Feasible(problem, attrs, aij, cost_matrix)
        /\ solves > 0 => status = "Optimal" /\ raised = ""

\* solved where the LSCP solution is the only choice within the budget and
\* backs no client up
C26_Witness ==
    /\ kind = "LSCPB" /\ pc = "built" /\ solves > 0
    /\ status = "Optimal"
    /\ predefined_facilities_arr # {}
    /\ cli_vars = ZeroCli
    /\ Open(fac_vars) \in LSCPOptima(aij, predefined_facilities_arr)
    /\ lscp_obj_value = 2

\* C27: an LSCPB whose cli2fac was extracted has a non-empty cli2fac entry
\* for every client, the clients whose ClientVar is 0 included.
C27_LSCPBKeepsFullCoverage ==
    (kind = "LSCPB" /\ "cli2fac" \in attrs) =>
        \A i \in Clients : Len(cli2fac[i]) >= 1

\* one client backed up, another covered once with ClientVar 0
C27_Witness ==
    /\ kind = "LSCPB" /\ last_call = Call("solve", TRUE, NoCRS) /\ raised = ""
    /\ \E i \in Clients : cli_vars[i] = 0 /\ Len(cli2fac[i]) = 1
    /\ \E i \in Clients : cli_vars[i] = 1 /\ Len(cli2fac[i]) >= 2

\* C28: right after an LSCPB solve that extracted results, ClientVar[i] is 1
\* exactly for the clients with two or more open facilities within the
\* radius, the clients with two or more cli2fac entries are as many as the
\* objective value (the sum of ClientVar), and backup_perc is
\* 100 * objective / number of clients.
C28_BackupCountIsObjective ==
    (kind = "LSCPB" /\ last_call = Call("solve", TRUE, NoCRS) /\ raised = "") =>
        /\ \A i \in Clients :
              cli_vars[i] = 1 <=> i \in BackedUpBy(aij, Open(fac_vars))
        /\ Cardinality({i \in Clients : Len(cli2fac[i]) >= 2})
              = ObjectiveValue(problem, [fac |-> fac_vars, cli |-> cli_vars, D |-> 0],
                               weights)
        /\ percentage = Percent(SumOver(Clients, cli_vars), NumCli)

\* one of the clients is backed up
C28_Witness ==
    /\ kind = "LSCPB" /\ last_call = Call("solve", TRUE, NoCRS) /\ raised = ""
    /\ SumOver(Clients, cli_vars) = 1
    /\ percentage = Percent(1, NumCli)
    /\ \E i \in Clients : Len(cli2fac[i]) = 1

PositiveWeights == \A i \in Clients : weights[i] > 0

\* C29: right after an MCLP with strictly positive weights was solved with
\* results, a client has an empty cli2fac entry exactly when no open facility
\* lies within the service radius of it, n_cli_uncov counts those clients,
\* and every client an open facility covers has ClientVar 1.
C29_UncoveredIsUncovered ==
    (/\ kind = "MCLP" /\ PositiveWeights
     /\ last_call = Call("solve", TRUE, NoCRS) /\ raised = "") =>
        /\ \A i \in Clients :
              cli2fac[i] = <<>> <=> i \notin CoveredBy(aij, Open(fac_vars))
        /\ n_cli_uncov = Cardinality(Clients \ CoveredBy(aij, Open(fac_vars)))
        /\ \A i \in CoveredBy(aij, Open(fac_vars)) : cli_vars[i] = 1

\* one client is out of reach of the open facilities, another within
C29_Witness ==
    /\ kind = "MCLP" /\ PositiveWeights
    /\ last_call = Call("solve", TRUE, NoCRS) /\ raised = ""
    /\ n_cli_uncov = 1
    /\ \E i \in Clients : cli2fac[i] = <<>>
    /\ \E i \in Clients : cli2fac[i] # <<>>

\* C30: a solve() that extracts nothing, called with results=False or
\* raising for its status, leaves fac2cli, cli2fac and the derived metrics
\* as they were, and the attributes an earlier solve() wrote stay set.
C30_EarlierResultsKept ==
    [][(/\ solves' = solves + 1
        /\ ~last_call'.results \/ raised' # "")
            => (results' = results /\ attrs' = attrs)]_vars

\* after a solve that extracted, a solve with results=False returned other
\* variable values and the arrays of the first are still there
C30_Witness ==
    /\ kind = "LSCPB" /\ last_call = Call("solve", FALSE, NoCRS)
    /\ solves >= 2
    /\ {"fac2cli", "cli2fac", "backup_perc"} \subseteq attrs
    /\ fac2cli # LSCPB_facility_client_array(fac_vars, aij)
    /\ fac2cli # EmptyFac2Cli

=============================================================================
